---- MODULE Spec2Model ----
(***************************************************************************)
(* OrgClient (arkid_client/org/client.py): the organization resource       *)
(* client of the ArkID SDK.  Every method logs one line and calls one verb *)
(* method of the inherited BaseClient with a path built by str.format.     *)
(*                                                                         *)
(* Strings that take part in path building are sequences of tokens over a  *)
(* prefix-free token set ("a", "/", "user", "invitation", "siteapi", "v1", *)
(* "org", ...), so two token sequences are equal exactly when the strings  *)
(* they spell are equal.  An optional keyword argument is <<>> when it is  *)
(* not passed and <<v>> when v is passed.  A dict is a record.             *)
(*                                                                         *)
(* BaseClient (arkid_client/base.py), the authorizers and the exception    *)
(* classes live outside org/client.py; the definitions that stand for them *)
(* follow the written specification of the library.                        *)
(***************************************************************************)
EXTENDS Naturals, Sequences, FiniteSets, TLC

VARIABLES client, pc, call, trace, wire, response, outcome

vars == <<client, pc, call, trace, wire, response, outcome>>

(***************************************************************************)
(* Bounds of the inputs.                                                   *)
(***************************************************************************)
MaxIdLen == 2
MaxUsernames == 2

SeqsUpTo(S, n) == UNION {[1..k -> S] : k \in 0..n}

(***************************************************************************)
(* Inputs.                                                                 *)
(***************************************************************************)
IdAlphabet == {"a", "/", "user", "invitation"}

\* oid, username, invite_link_key: any str, the empty one and ones with '/'
\* included (the methods validate nothing).
Identifiers == SeqsUpTo(IdAlphabet, MaxIdLen)

\* usernames: a list of user identifiers.
UsernameLists == SeqsUpTo({<<"a">>, <<"b">>}, MaxUsernames)

EmptyDict == [k \in {} |-> k]

\* json_body: a dict of arbitrary fields.
JsonBodies == {EmptyDict, [name |-> "example"], [email |-> "example@org.com", oid |-> "x"]}

\* **params: the keyword arguments of query_own_org and query_orguser_list.
ParamSets == {EmptyDict, [role |-> "admin"]}

BaseUrls == {<<"https://arkid.example">>}

Authorizers == {"None", "BasicAuthorizer", "NullAuthorizer"}

\* What the server may answer.
Responses == {[status |-> 200, message |-> "OK"],
              [status |-> 403, message |-> "forbidden"],
              [status |-> 500, message |-> "internal error"]}

\* The inputs of a single caller, and those of concurrent callers.
SeqDomain == [ids |-> Identifiers, lists |-> UsernameLists,
              bodies |-> JsonBodies, params |-> ParamSets]

ConcDomain == [ids |-> {<<>>, <<"a">>, <<"user">>, <<"/", "user">>},
               lists |-> {<<>>, <<<<"a">>>>, <<<<"a">>, <<"b">>>>, <<<<"b">>, <<"a">>>>},
               bodies |-> {EmptyDict, [name |-> "example"]},
               params |-> ParamSets]

Threads == {"t1", "t2"}

NotPassed == <<>>
Passed(v) == <<v>>

(***************************************************************************)
(* Class attributes of OrgClient.                                          *)
(***************************************************************************)
allowed_authorizer_types_any == Authorizers
allowed_authorizer_types == {"BasicAuthorizer"}

error_class_generic == "ArkIDAPIError"
error_class == "OrgAPIError"

default_response_class == "ArkIDHTTPResponse"

(***************************************************************************)
(* str.format and the string literals of the methods.                      *)
(***************************************************************************)
RECURSIVE Subst(_, _)
Subst(tmpl, args) ==
    IF tmpl = <<>> THEN <<>>
    ELSE IF Head(tmpl) = "{}"
         THEN Head(args) \o Subst(Tail(tmpl), Tail(args))
         ELSE <<Head(tmpl)>> \o Subst(Tail(tmpl), args)

\* '...'.format(args): the text, with the literal it was built from.
format(tmpl, args) == [template |-> tmpl, text |-> Subst(tmpl, args)]

(***************************************************************************)
(* What a method does, in program order: log lines and calls of the verb   *)
(* methods of the inherited transport.                                     *)
(***************************************************************************)
\* self.logger.info("... OrgClient.<name>() ..."): the text around the
\* method reference is the same in every method and is left out.
info(name) == [kind |-> "log", level |-> "info", line |-> <<"OrgClient.", name, "()">>]

verb_call(verb, path, params, json_body) ==
    [kind |-> "call", verb |-> verb, template |-> path.template, path |-> path.text,
     params |-> params, json_body |-> json_body]

get(path, params) == verb_call("GET", path, params, NotPassed)
post(path, json_body) == verb_call("POST", path, NotPassed, json_body)
patch(path, json_body) == verb_call("PATCH", path, NotPassed, json_body)
put(path) == verb_call("PUT", path, NotPassed, NotPassed)
delete(path) == verb_call("DELETE", path, NotPassed, NotPassed)

\* A method's result: the client object after it, and what it did.
Does(self, effects) == [self |-> self, effects |-> effects]

(***************************************************************************)
(* The methods of OrgClient.                                               *)
(***************************************************************************)
query_own_org(self, params) ==
    Does(self, <<info("query_own_org"),
                 get(format(<<>>, <<>>), Passed(params))>>)

query_org_no_slash(self, oid) ==
    Does(self, <<info("query_org"),
                 get(format(<<"{}">>, <<oid>>), NotPassed)>>)
query_org(self, oid) ==
    Does(self, <<info("query_org"),
                 get(format(<<"{}", "/">>, <<oid>>), NotPassed)>>)

create_org_validating(self, json_body) ==
    Does(self, <<info("create_org"),
                 post(format(<<>>, <<>>),
                      Passed(IF "name" \in DOMAIN json_body THEN json_body
                             ELSE [name |-> "unnamed"]))>>)
create_org(self, json_body) ==
    Does(self, <<info("create_org"),
                 post(format(<<>>, <<>>), Passed(json_body))>>)

delete_org_patch(self, oid) ==
    Does(self, <<info("delete_org"),
                 patch(format(<<"{}", "/">>, <<oid>>), NotPassed)>>)
delete_org(self, oid) ==
    Does(self, <<info("delete_org"),
                 delete(format(<<"{}", "/">>, <<oid>>))>>)

update_org(self, oid, json_body) ==
    Does(self, <<info("update_org"),
                 patch(format(<<"{}", "/">>, <<oid>>), Passed(json_body))>>)

query_orguser_list_caching(self, oid, params) ==
    Does([self EXCEPT !.base_url = @ \o oid],
         <<info("query_orguser_list"),
           get(format(<<"{}", "/", "user", "/">>, <<oid>>), Passed(params))>>)
query_orguser_list(self, oid, params) ==
    Does(self, <<info("query_orguser_list"),
                 get(format(<<"{}", "/", "user", "/">>, <<oid>>), Passed(params))>>)

add_orguser_dedup(self, oid, usernames) ==
    Does(self, <<info("add_orguser"),
                 patch(format(<<"{}", "/", "user", "/">>, <<oid>>),
                       Passed([subject |-> "add",
                               usernames |-> IF Len(usernames) > 1 /\ usernames[1] = usernames[2]
                                             THEN Tail(usernames) ELSE usernames]))>>)
add_orguser(self, oid, usernames) ==
    Does(self, <<info("add_orguser"),
                 patch(format(<<"{}", "/", "user", "/">>, <<oid>>),
                       Passed([subject |-> "add", usernames |-> usernames]))>>)

delete_orguser_as_add(self, oid, usernames) ==
    Does(self, <<info("delete_orguser"),
                 patch(format(<<"{}", "/", "user", "/">>, <<oid>>),
                       Passed([subject |-> "add", usernames |-> usernames]))>>)
delete_orguser(self, oid, usernames) ==
    Does(self, <<info("delete_orguser"),
                 patch(format(<<"{}", "/", "user", "/">>, <<oid>>),
                       Passed([subject |-> "delete", usernames |-> usernames]))>>)

query_orguser_no_username(self, oid, username) ==
    Does(self, <<info("query_orguser"),
                 get(format(<<"{}", "/", "user", "/">>, <<oid>>), NotPassed)>>)
query_orguser(self, oid, username) ==
    Does(self, <<info("query_orguser"),
                 get(format(<<"{}", "/", "user", "/", "{}", "/">>, <<oid, username>>),
                     NotPassed)>>)

update_orguser(self, oid, username, json_body) ==
    Does(self, <<info("update_orguser"),
                 patch(format(<<"{}", "/", "user", "/", "{}", "/">>, <<oid, username>>),
                       Passed(json_body))>>)

get_org_invitation_key(self, oid) ==
    Does(self, <<info("get_org_invitation_key"),
                 get(format(<<"{}", "/", "invitation", "/">>, <<oid>>), NotPassed)>>)

\* The log line of refresh_org_invitation_key names get_org_invitation_key
\* (client.py line 351).
refresh_org_invitation_key(self, oid) ==
    Does(self, <<info("get_org_invitation_key"),
                 put(format(<<"{}", "/", "invitation", "/">>, <<oid>>))>>)

view_org_by_invitation_key(self, oid, invite_link_key) ==
    Does(self, <<info("view_org_by_invitation_key"),
                 get(format(<<"{}", "/", "invitation", "/", "{}", "/">>,
                            <<oid, invite_link_key>>), NotPassed)>>)

join_org_by_invitation_key(self, oid, invite_link_key) ==
    Does(self, <<info("join_org_by_invitation_key"),
                 post(format(<<"{}", "/", "invitation", "/", "{}", "/">>,
                             <<oid, invite_link_key>>), NotPassed)>>)

(***************************************************************************)
(* BaseClient: construction, the transport behind the verb methods, and    *)
(* the translation of the server's answer.                                 *)
(***************************************************************************)
NewClient == [state |-> "new", base_url |-> <<>>, service |-> "", authorizer |-> "None"]

\* BaseClient.__init__: an authorizer whose type is not allowed is refused.
BaseClient_init(base_url, service, authorizer) ==
    IF authorizer # "None" /\ authorizer \notin allowed_authorizer_types
    THEN [state |-> "failed", base_url |-> <<>>, service |-> "", authorizer |-> authorizer]
    ELSE [state |-> "ready", base_url |-> base_url, service |-> service,
          authorizer |-> authorizer]

\* OrgClient.__init__
OrgClient_init(base_url, authorizer) == BaseClient_init(base_url, "org", authorizer)

base_path(service) == <<"/", "siteapi", "/", "v1", "/", service, "/">>

\* One verb-method call becomes one HTTP request.
send(self, c) ==
    [verb |-> c.verb, url |-> self.base_url \o base_path(self.service) \o c.path,
     params |-> c.params, json_body |-> c.json_body, authorizer |-> self.authorizer]

IsCall(e) == e.kind = "call"
IsLog(e) == e.kind = "log"

Requests(self, effects) ==
    LET calls == SelectSeq(effects, IsCall)
    IN [i \in 1..Len(calls) |-> send(self, calls[i])]

\* The end of a verb method: a response object, or the client's error class.
handle(resp) ==
    IF resp.status >= 200 /\ resp.status < 400
    THEN [kind |-> "return", class |-> default_response_class,
          status |-> resp.status, message |-> resp.message]
    ELSE [kind |-> "raise", class |-> error_class,
          status |-> resp.status, message |-> resp.message]

(***************************************************************************)
(* State.                                                                  *)
(***************************************************************************)
Args(oid, username, invite_link_key, usernames, json_body, params) ==
    [oid |-> oid, username |-> username, invite_link_key |-> invite_link_key,
     usernames |-> usernames, json_body |-> json_body, params |-> params]

NoCall == [method |-> "none"] @@ Args(<<>>, <<>>, <<>>, <<>>, NotPassed, NotPassed)
NoResponse == [status |-> 0, message |-> ""]
NoOutcome == [kind |-> "none", class |-> "", status |-> 0, message |-> ""]

Init ==
    /\ client = NewClient
    /\ pc = [t \in Threads |-> "idle"]
    /\ call = [t \in Threads |-> NoCall]
    /\ trace = [t \in Threads |-> <<>>]
    /\ wire = [t \in Threads |-> <<>>]
    /\ response = [t \in Threads |-> NoResponse]
    /\ outcome = [t \in Threads |-> NoOutcome]

\* OrgClient(base_url, authorizer)
Construct ==
    /\ client.state = "new"
    /\ \E base_url \in BaseUrls, authorizer \in Authorizers :
           client' = OrgClient_init(base_url, authorizer)
    /\ UNCHANGED <<pc, call, trace, wire, response, outcome>>

\* A method can be called on a constructed client by a caller that is not
\* inside another call.
CanCall(t) == client.state = "ready" /\ pc[t] = "idle"

\* Thread t calls method m: the method runs up to the request on the wire.
Invoke(t, m, args, r) ==
    /\ client' = r.self
    /\ pc' = [pc EXCEPT ![t] = "awaiting"]
    /\ call' = [call EXCEPT ![t] = [method |-> m] @@ args]
    /\ trace' = [trace EXCEPT ![t] = r.effects]
    /\ wire' = [wire EXCEPT ![t] = Requests(r.self, r.effects)]
    /\ UNCHANGED <<response, outcome>>

Call_query_own_org(t, D) ==
    /\ CanCall(t)
    /\ \E params \in D.params :
        Invoke(t, "query_own_org", Args(<<>>, <<>>, <<>>, <<>>, NotPassed, Passed(params)),
               query_own_org(client, params))

Call_query_org(t, D) ==
    /\ CanCall(t)
    /\ \E oid \in D.ids :
        Invoke(t, "query_org", Args(oid, <<>>, <<>>, <<>>, NotPassed, NotPassed),
               query_org(client, oid))

Call_create_org(t, D) ==
    /\ CanCall(t)
    /\ \E json_body \in D.bodies :
        Invoke(t, "create_org", Args(<<>>, <<>>, <<>>, <<>>, Passed(json_body), NotPassed),
               create_org(client, json_body))

Call_delete_org(t, D) ==
    /\ CanCall(t)
    /\ \E oid \in D.ids :
        Invoke(t, "delete_org", Args(oid, <<>>, <<>>, <<>>, NotPassed, NotPassed),
               delete_org(client, oid))

Call_update_org(t, D) ==
    /\ CanCall(t)
    /\ \E oid \in D.ids, json_body \in D.bodies :
        Invoke(t, "update_org", Args(oid, <<>>, <<>>, <<>>, Passed(json_body), NotPassed),
               update_org(client, oid, json_body))

Call_query_orguser_list(t, D) ==
    /\ CanCall(t)
    /\ \E oid \in D.ids, params \in D.params :
        Invoke(t, "query_orguser_list", Args(oid, <<>>, <<>>, <<>>, NotPassed, Passed(params)),
               query_orguser_list(client, oid, params))

Call_add_orguser(t, D) ==
    /\ CanCall(t)
    /\ \E oid \in D.ids, usernames \in D.lists :
        Invoke(t, "add_orguser", Args(oid, <<>>, <<>>, usernames, NotPassed, NotPassed),
               add_orguser(client, oid, usernames))

Call_delete_orguser(t, D) ==
    /\ CanCall(t)
    /\ \E oid \in D.ids, usernames \in D.lists :
        Invoke(t, "delete_orguser", Args(oid, <<>>, <<>>, usernames, NotPassed, NotPassed),
               delete_orguser(client, oid, usernames))

Call_query_orguser(t, D) ==
    /\ CanCall(t)
    /\ \E oid \in D.ids, username \in D.ids :
        Invoke(t, "query_orguser", Args(oid, username, <<>>, <<>>, NotPassed, NotPassed),
               query_orguser(client, oid, username))

Call_update_orguser(t, D) ==
    /\ CanCall(t)
    /\ \E oid \in D.ids, username \in D.ids, json_body \in D.bodies :
        Invoke(t, "update_orguser",
               Args(oid, username, <<>>, <<>>, Passed(json_body), NotPassed),
               update_orguser(client, oid, username, json_body))

Call_get_org_invitation_key(t, D) ==
    /\ CanCall(t)
    /\ \E oid \in D.ids :
        Invoke(t, "get_org_invitation_key", Args(oid, <<>>, <<>>, <<>>, NotPassed, NotPassed),
               get_org_invitation_key(client, oid))

Call_refresh_org_invitation_key(t, D) ==
    /\ CanCall(t)
    /\ \E oid \in D.ids :
        Invoke(t, "refresh_org_invitation_key",
               Args(oid, <<>>, <<>>, <<>>, NotPassed, NotPassed),
               refresh_org_invitation_key(client, oid))

Call_view_org_by_invitation_key(t, D) ==
    /\ CanCall(t)
    /\ \E oid \in D.ids, invite_link_key \in D.ids :
        Invoke(t, "view_org_by_invitation_key",
               Args(oid, <<>>, invite_link_key, <<>>, NotPassed, NotPassed),
               view_org_by_invitation_key(client, oid, invite_link_key))

Call_join_org_by_invitation_key(t, D) ==
    /\ CanCall(t)
    /\ \E oid \in D.ids, invite_link_key \in D.ids :
        Invoke(t, "join_org_by_invitation_key",
               Args(oid, <<>>, invite_link_key, <<>>, NotPassed, NotPassed),
               join_org_by_invitation_key(client, oid, invite_link_key))

\* The server answers the request of thread t and the verb method ends.
Respond(t) ==
    /\ pc[t] = "awaiting"
    /\ Len(wire[t]) > 0
    /\ \E resp \in Responses :
           /\ response' = [response EXCEPT ![t] = resp]
           /\ outcome' = [outcome EXCEPT ![t] = handle(resp)]
    /\ pc' = [pc EXCEPT ![t] = "done"]
    /\ UNCHANGED <<client, call, trace, wire>>

\* The caller has the result (or the error) and its frame is gone.
Return(t) ==
    /\ pc[t] = "done"
    /\ pc' = [pc EXCEPT ![t] = "idle"]
    /\ call' = [call EXCEPT ![t] = NoCall]
    /\ trace' = [trace EXCEPT ![t] = <<>>]
    /\ wire' = [wire EXCEPT ![t] = <<>>]
    /\ response' = [response EXCEPT ![t] = NoResponse]
    /\ outcome' = [outcome EXCEPT ![t] = NoOutcome]
    /\ UNCHANGED client

Step(t, D) ==
    \/ Call_query_own_org(t, D)
    \/ Call_query_org(t, D)
    \/ Call_create_org(t, D)
    \/ Call_delete_org(t, D)
    \/ Call_update_org(t, D)
    \/ Call_query_orguser_list(t, D)
    \/ Call_add_orguser(t, D)
    \/ Call_delete_orguser(t, D)
    \/ Call_query_orguser(t, D)
    \/ Call_update_orguser(t, D)
    \/ Call_get_org_invitation_key(t, D)
    \/ Call_refresh_org_invitation_key(t, D)
    \/ Call_view_org_by_invitation_key(t, D)
    \/ Call_join_org_by_invitation_key(t, D)
    \/ Respond(t)
    \/ Return(t)

\* One caller.
Next == Construct \/ Step("t1", SeqDomain)

Spec == Init /\ [][Next]_vars

\* Concurrent callers sharing the client.
ConcNext == Construct \/ \E t \in Threads : Step(t, ConcDomain)

ConcSpec == Init /\ [][ConcNext]_vars

(***************************************************************************)
(* Properties.                                                             *)
(***************************************************************************)
InFlight(t) == pc[t] \in {"awaiting", "done"}

TheCalls(t) == SelectSeq(trace[t], IsCall)
TheLogs(t) == SelectSeq(trace[t], IsLog)

\* The HTTP surface: the verb and the path, relative to /siteapi/v1/org/,
\* of a call c of each method.
SurfaceVerb(c) ==
    CASE c.method \in {"query_own_org", "query_org", "query_orguser_list", "query_orguser",
                       "get_org_invitation_key", "view_org_by_invitation_key"} -> "GET"
      [] c.method \in {"create_org", "join_org_by_invitation_key"} -> "POST"
      [] c.method \in {"update_org", "add_orguser", "delete_orguser", "update_orguser"} -> "PATCH"
      [] c.method = "refresh_org_invitation_key" -> "PUT"
      [] c.method = "delete_org" -> "DELETE"

SurfacePath(c) ==
    CASE c.method \in {"query_own_org", "create_org"} -> <<>>
      [] c.method \in {"query_org", "update_org", "delete_org"} -> c.oid \o <<"/">>
      [] c.method \in {"query_orguser_list", "add_orguser", "delete_orguser"} ->
             c.oid \o <<"/", "user", "/">>
      [] c.method \in {"query_orguser", "update_orguser"} ->
             c.oid \o <<"/", "user", "/">> \o c.username \o <<"/">>
      [] c.method \in {"get_org_invitation_key", "refresh_org_invitation_key"} ->
             c.oid \o <<"/", "invitation", "/">>
      [] c.method \in {"view_org_by_invitation_key", "join_org_by_invitation_key"} ->
             c.oid \o <<"/", "invitation", "/">> \o c.invite_link_key \o <<"/">>

SurfaceRoot == <<"/", "siteapi", "/", "v1", "/", "org", "/">>

\* C1: every call of every method makes exactly one verb-method call on the
\* inherited transport, hence one HTTP request, with the verb and the path
\* the HTTP surface gives for the method; query_org(oid) is one GET to
\* /siteapi/v1/org/{oid}/.
C1_OneRequestWithSurfaceVerbAndPath ==
    \A t \in Threads :
        InFlight(t) =>
            /\ Len(TheCalls(t)) = 1
            /\ Len(wire[t]) = 1
            /\ TheCalls(t)[1].verb = SurfaceVerb(call[t])
            /\ TheCalls(t)[1].path = SurfacePath(call[t])
            /\ wire[t][1].verb = SurfaceVerb(call[t])
            /\ wire[t][1].url = client.base_url \o SurfaceRoot \o SurfacePath(call[t])

C1_Witness ==
    /\ pc["t1"] = "awaiting"
    /\ call["t1"].method = "query_org"
    /\ call["t1"].oid = <<"a">>
    /\ Len(wire["t1"]) = 1
    /\ wire["t1"][1].verb = "GET"
    /\ wire["t1"][1].url =
           <<"https://arkid.example", "/", "siteapi", "/", "v1", "/", "org", "/", "a", "/">>

\* C2: add_orguser(oid, usernames) makes one PATCH to
\* /siteapi/v1/org/{oid}/user/ whose body has exactly the keys subject and
\* usernames, with subject "add" and usernames the given list.
C2_AddOrguserBody ==
    \A t \in Threads :
        (InFlight(t) /\ call[t].method = "add_orguser") =>
            /\ Len(wire[t]) = 1
            /\ wire[t][1].verb = "PATCH"
            /\ wire[t][1].url = client.base_url \o SurfaceRoot \o call[t].oid \o <<"/", "user", "/">>
            /\ Len(wire[t][1].json_body) = 1
            /\ DOMAIN wire[t][1].json_body[1] = {"subject", "usernames"}
            /\ wire[t][1].json_body[1].subject = "add"
            /\ wire[t][1].json_body[1].usernames = call[t].usernames

C2_Witness ==
    /\ pc["t1"] = "awaiting"
    /\ call["t1"].method = "add_orguser"
    /\ call["t1"].usernames = <<<<"a">>, <<"b">>>>
    /\ wire["t1"][1].json_body = <<[subject |-> "add", usernames |-> <<<<"a">>, <<"b">>>>]>>

\* C3: delete_orguser(oid, usernames) makes a request with the verb and the
\* path of add_orguser(oid, usernames), and a body that differs from it only
\* in subject, which is "delete" instead of "add".
C3_DeleteMirrorsAdd ==
    \A t1, t2 \in Threads :
        (/\ InFlight(t1) /\ InFlight(t2)
         /\ call[t1].method = "add_orguser" /\ call[t2].method = "delete_orguser"
         /\ call[t1].oid = call[t2].oid /\ call[t1].usernames = call[t2].usernames) =>
            /\ Len(wire[t1]) = 1 /\ Len(wire[t2]) = 1
            /\ wire[t2][1].verb = wire[t1][1].verb
            /\ wire[t2][1].url = wire[t1][1].url
            /\ wire[t2][1].params = wire[t1][1].params
            /\ Len(wire[t1][1].json_body) = 1 /\ Len(wire[t2][1].json_body) = 1
            /\ LET a == wire[t1][1].json_body[1]
                   d == wire[t2][1].json_body[1]
               IN /\ DOMAIN d = DOMAIN a
                  /\ \A k \in DOMAIN a \ {"subject"} : d[k] = a[k]
                  /\ a.subject = "add"
                  /\ d.subject = "delete"

C3_Witness ==
    /\ InFlight("t1") /\ InFlight("t2")
    /\ call["t1"].method = "add_orguser" /\ call["t2"].method = "delete_orguser"
    /\ call["t1"].oid = <<"a">> /\ call["t2"].oid = <<"a">>
    /\ call["t1"].usernames = <<<<"a">>, <<"b">>>>
    /\ call["t2"].usernames = <<<<"a">>, <<"b">>>>

\* C4: create_org(json_body) makes one POST to /siteapi/v1/org/ whose body is
\* the given payload, whatever its shape; update_org and update_orguser pass
\* their json_body through the same way.
C4_PayloadPassThrough ==
    \A t \in Threads :
        (InFlight(t) /\ call[t].method \in {"create_org", "update_org", "update_orguser"}) =>
            /\ Len(call[t].json_body) = 1
            /\ Len(wire[t]) = 1
            /\ wire[t][1].json_body = call[t].json_body
            /\ call[t].method = "create_org" =>
                   /\ wire[t][1].verb = "POST"
                   /\ wire[t][1].url = client.base_url \o SurfaceRoot

C4_Witness ==
    /\ pc["t1"] = "awaiting"
    /\ call["t1"].method = "create_org"
    /\ call["t1"].json_body = <<EmptyDict>>
    /\ wire["t1"][1].json_body = <<EmptyDict>>

\* C5: every call logs exactly one informational line, the line names the
\* method that was called, and it is logged before the request is dispatched.
C5_LogNamesInvokedMethod ==
    \A t \in Threads :
        InFlight(t) =>
            /\ Len(TheLogs(t)) = 1
            /\ TheLogs(t)[1].level = "info"
            /\ TheLogs(t)[1].line = <<"OrgClient.", call[t].method, "()">>
            /\ IsLog(trace[t][1])
            /\ \A i \in 1..Len(trace[t]) : IsCall(trace[t][i]) => i > 1

\* C6: constructing with an authorizer other than a BasicAuthorizer fails and
\* no request is ever made with it; constructing with no authorizer or with a
\* BasicAuthorizer succeeds.
C6_AuthorizerCheckedAtConstruction ==
    client.state # "new" =>
        IF client.authorizer \in {"None", "BasicAuthorizer"}
        THEN client.state = "ready"
        ELSE /\ client.state = "failed"
             /\ \A t \in Threads : pc[t] = "idle" /\ wire[t] = <<>> /\ trace[t] = <<>>

C6_Witness == client.state = "failed" /\ client.authorizer = "NullAuthorizer"

\* C7: when the server answers with an error, the call ends in an OrgAPIError
\* carrying the server's status and message; no second request is made and no
\* response object is returned.
C7_ServerErrorBecomesOrgAPIError ==
    \A t \in Threads :
        (pc[t] = "done" /\ response[t].status >= 400) =>
            /\ outcome[t].kind = "raise"
            /\ outcome[t].class = "OrgAPIError"
            /\ outcome[t].status = response[t].status
            /\ outcome[t].message = response[t].message
            /\ Len(wire[t]) = 1

C7_Witness ==
    /\ pc["t1"] = "done"
    /\ call["t1"].method = "delete_org"
    /\ response["t1"] = [status |-> 403, message |-> "forbidden"]
    /\ outcome["t1"].kind = "raise"

\* Callers that make the same call make the same request, with the client's
\* base URL and authorizer.
C8_SameCallSameRequest ==
    \A t1, t2 \in Threads :
        (InFlight(t1) /\ InFlight(t2) /\ call[t1] = call[t2]) =>
            /\ trace[t1] = trace[t2]
            /\ wire[t1] = wire[t2]
            /\ \A i \in 1..Len(wire[t1]) :
                   /\ SubSeq(wire[t1][i].url, 1, Len(client.base_url)) = client.base_url
                   /\ wire[t1][i].authorizer = client.authorizer

\* No step changes the constructed client.
C8_ClientUnchanged == client.state = "ready" => client' = client

\* C8: no method call changes the constructed client (base URL, authorizer),
\* and callers that make the same call make the same request, whatever ran
\* before or runs alongside.
C8_CallsAreIndependent == [](C8_SameCallSameRequest) /\ [][C8_ClientUnchanged]_vars

C8_Witness ==
    /\ pc["t1"] = "done" /\ pc["t2"] = "awaiting"
    /\ call["t1"].method = "query_orguser_list"
    /\ call["t1"].oid = <<"a">>
    /\ call["t2"] = call["t1"]
    /\ client.base_url = <<"https://arkid.example">>

Endpoint(t) == <<TheCalls(t)[1].verb, TheCalls(t)[1].template>>

\* C9, as stated: every method has one (verb, path template) endpoint, and
\* no two distinct methods have the same one.
C9_OneToOne ==
    \A t1, t2 \in Threads :
        (InFlight(t1) /\ InFlight(t2)) =>
            (call[t1].method = call[t2].method <=> Endpoint(t1) = Endpoint(t2))

\* C9, amended: every method has one (verb, path template) endpoint, and the
\* only two distinct methods with the same one are add_orguser and
\* delete_orguser (PATCH {oid}/user/), whose bodies differ in subject.
C9_OneToOneButMembership ==
    \A t1, t2 \in Threads :
        (InFlight(t1) /\ InFlight(t2)) =>
            /\ call[t1].method = call[t2].method => Endpoint(t1) = Endpoint(t2)
            /\ (call[t1].method # call[t2].method /\ Endpoint(t1) = Endpoint(t2)) =>
                   /\ {call[t1].method, call[t2].method} = {"add_orguser", "delete_orguser"}
                   /\ Endpoint(t1) = <<"PATCH", <<"{}", "/", "user", "/">>>>
                   /\ wire[t1][1].json_body[1].subject # wire[t2][1].json_body[1].subject

C9_Witness ==
    /\ InFlight("t1") /\ InFlight("t2")
    /\ call["t1"].method = "add_orguser" /\ call["t2"].method = "delete_orguser"
    /\ Endpoint("t1") = Endpoint("t2")

UsesUsername(m) == m \in {"query_orguser", "update_orguser"}
UsesKey(m) == m \in {"view_org_by_invitation_key", "join_org_by_invitation_key"}
UsesOid(m) == m \notin {"query_own_org", "create_org"}

ValidId(id) == id # <<>> /\ \A i \in 1..Len(id) : id[i] # "/"

ValidIds(c) ==
    /\ UsesOid(c.method) => ValidId(c.oid)
    /\ UsesUsername(c.method) => ValidId(c.username)
    /\ UsesKey(c.method) => ValidId(c.invite_link_key)

\* C10: for identifiers that are non-empty and hold no '/', two calls that
\* make the same (verb, path) are calls of the same endpoint with the same
\* identifiers.
C10_PathsInjectiveOnValidIds ==
    \A t1, t2 \in Threads :
        (/\ InFlight(t1) /\ InFlight(t2)
         /\ ValidIds(call[t1]) /\ ValidIds(call[t2])
         /\ wire[t1][1].verb = wire[t2][1].verb
         /\ wire[t1][1].url = wire[t2][1].url) =>
            /\ Endpoint(t1) = Endpoint(t2)
            /\ call[t1].oid = call[t2].oid
            /\ call[t1].username = call[t2].username
            /\ call[t1].invite_link_key = call[t2].invite_link_key

C10_Witness ==
    /\ InFlight("t1") /\ InFlight("t2")
    /\ call["t1"].method = "query_orguser" /\ call["t2"].method = "query_orguser"
    /\ call["t1"].oid = <<"user">> /\ call["t1"].username = <<"a">>
    /\ wire["t1"][1].url = wire["t2"][1].url

\* Without the precondition the paths collide: query_org("/user") and
\* query_orguser_list("") are both GET /siteapi/v1/org//user/.
PathsInjectiveOnAllIds ==
    \A t1, t2 \in Threads :
        (/\ InFlight(t1) /\ InFlight(t2)
         /\ wire[t1][1].verb = wire[t2][1].verb
         /\ wire[t1][1].url = wire[t2][1].url) =>
            Endpoint(t1) = Endpoint(t2)

====
